---- MODULE Spec2Model ----
(***************************************************************************)
(* Model of the issue-synchronisation core of CATcher: IssueService (the   *)
(* local store, the bulk poller, the single-issue poller, the remote       *)
(* mutations) and the delete flow of IssueTablesComponent.                 *)
(*                                                                         *)
(* Every remote call is asynchronous: a call in flight is a piece of       *)
(* state, and its success and its failure are separate actions.  All       *)
(* handlers run to completion on one thread, so each handler is one        *)
(* action.                                                                 *)
(***************************************************************************)
EXTENDS Integers, Sequences, FiniteSets, TLC

\* Issue ids range over 1..MaxId.
MaxId == 3
\* Close calls in flight for one id (the component does not reject a second
\* delete of an id that is already pending).
MaxCalls == 2
\* Errors reported to the error handler in one run.
MaxErrors == 2
\* setTimeout callbacks of deleteEliminatedIssues pending at one time.
MaxTimers == 2
\* Teams allocated to the tutor or admin who is logged in.
MaxTeams == 2

Ids == 1..MaxId
IssueStates == {"OPEN", "CLOSED"}

\* A raw issue as returned by the remote tracker.
\* Issue.status as the table sets it (STATUS.Incomplete, STATUS.Done).
Statuses == {"Incomplete", "Done"}

GithubIssues == [id : Ids, state : IssueStates, status : Statuses]

RecognisedPhases ==
  {"phaseBugReporting", "phaseBugTrimming", "phaseTeamResponse",
   "phaseTesterResponse", "phaseModeration"}

\* The phases a session of the model runs in: a recognised one and the value
\* the phase service holds before a session is set up.
SessionPhases == {"phaseBugReporting", "undefined"}

\* IssuesFilter[phase][role], as far as initializeData distinguishes it: one
\* fetch by filter, or no access.  The table IssuesFilter is not among the
\* sources, so the filter kind varies independently of the phase.
FilterKinds == {"Filter", "NoAccess"}

VARIABLES
  currentPhase,            \* phaseService.currentPhase
  filterKind,              \* IssuesFilter[currentPhase][currentUser.role]
  issuesDefined,           \* this.issues !== undefined
  issues,                  \* this.issues: id -> Issue
  issuesSubject,           \* current value of issues$ (a BehaviorSubject)
  isLoading,               \* current value of isLoading
  isCreatingTeamResponse,  \* this.isCreatingTeamResponse
  teamResponseCall,        \* createTeamResponse: "none" | "updating" | "commenting"
  pollIssueSub,            \* subscription to pollIssue(polledId): "none" | "open" | "errored"
  polledId,                \* the id pollIssue was called with (0: none)
  pollInner,               \* inner observable of pollIssue: "idle" | "fetching" | "fallback"
  pollLast,                \* what the subscriber of pollIssue received last
  issuesPendingDeletion,   \* IssueTablesComponent.issuesPendingDeletion (its keys)
  closeCalls,              \* closeIssue calls in flight, per id
  overlapped,              \* a delete of the id was started while the id was pending
  snackBar,                \* the id whose undo snack bar is open (0: none)
  issuesPollSubscription,  \* "undefined" | "open" | "closed" (ended by an error)
  liveTimers,              \* timers of startPollIssues still ticking
  firstTickDue,            \* the 0 ms tick of the current timer has not fired yet
  innerActive,             \* exhaustMap of the bulk poll has an active inner observable
  cyclesInFlight,          \* bulk fetches whose result will still be processed
  finishedSinceStart,      \* a cycle has finished since the last effective start
  stoppedInFlight,         \* the last stop tore down a cycle in flight
  lastOp,                  \* the handler that ran last
  fetchedIssueIds,         \* fetchedIssueIds of the last reconcile
  outdatedIssueIds,        \* outdatedIssueIds of the last reconcile
  nextCalls,               \* calls of issues$.next made by the last bulk cycle
  lastFetched,             \* issuesByFilter of the last reconcile (recorded by SpecReconcile)
  hasFetched,              \* lastFetched has been recorded
  repeated,                \* the last reconcile got the same issuesByFilter as the one before
  served,                  \* the tracker's answer to the bulk fetch in flight, not yet
                           \* delivered: {} or {the ids of the open issues it read}
  handledErrors,           \* calls of errorHandlingService.handleError so far
  remoteOpen,              \* ids of the issues open at the remote tracker
  remoteStatus,            \* status label of each issue at the remote tracker
  reopenCalls,             \* reopenIssue calls in flight, per id
  eliminatedIssues,        \* issueService.eliminatedIssues (the ids of its issues)
  clearTimers,             \* setTimeout callbacks of deleteEliminatedIssues not yet run, oldest
                           \* first: for each, whether the undo of its snack bar was invoked
  lastEliminated,          \* the set the last deleteEliminatedIssues looped over
  bulkSnackBar,            \* the undo snack bar of deleteEliminatedIssues is open
  updateCalls,             \* updateIssue calls of markAsResponded/markAsPending in flight
  compoundCall,            \* the forkJoin mutation under way or finished last, and its two calls
  compoundLast,            \* what the subscriber of that mutation has received
  remoteError,             \* the error githubService.updateIssue failed with last
  updateError,             \* what updateGithubIssue failed with for that error
  buildLast                \* what the subscriber of the last createIssue or updateIssue received

storeVars == <<issuesDefined, issues, issuesSubject>>
pollVars == <<issuesPollSubscription, liveTimers, firstTickDue, innerActive,
              cyclesInFlight, finishedSinceStart, stoppedInFlight>>
cycleVars == <<fetchedIssueIds, outdatedIssueIds, nextCalls>>
recVars == <<lastFetched, hasFetched, repeated, served>>
envVars == <<currentPhase, filterKind>>
teamResponseVars == <<isCreatingTeamResponse, teamResponseCall>>
issuePollVars == <<pollIssueSub, polledId, pollInner, pollLast>>
deleteVars == <<issuesPendingDeletion, closeCalls, overlapped, snackBar>>
\* Everything outside the store and the bulk poller.
undoVars == <<reopenCalls>>
eliminateVars == <<eliminatedIssues, clearTimers, lastEliminated, bulkSnackBar>>
\* The error channel, the remote tracker and the workflows of the issue table
\* other than the delete of one issue.
remoteVars == <<remoteOpen, remoteStatus>>
updateVars == <<updateCalls>>
compoundVars == <<compoundCall, compoundLast>>
shapeVars == <<remoteError, updateError>>
\* The calls of updateIssue and of the mutations built on it.
buildVars == <<buildLast>>
updateIssueVars == <<updateVars, compoundVars, shapeVars, buildVars>>
mutationVars == <<handledErrors, remoteVars, undoVars, eliminateVars,
                  updateIssueVars>>

restVars == <<teamResponseVars, issuePollVars, deleteVars, mutationVars>>

vars == <<envVars, storeVars, isLoading, restVars, pollVars, lastOp,
          cycleVars, recVars>>

----------------------------------------------------------------------------
(* Helpers *)

Min(S) == CHOOSE x \in S : \A y \in S : x <= y

Range(s) == {s[i] : i \in DOMAIN s}

EmptyStore == [i \in {} |-> 0]

\* Object.values of an object with integer keys: ascending key order.
RECURSIVE ObjectValues(_)
ObjectValues(m) ==
  IF DOMAIN m = {} THEN <<>>
  ELSE LET k == Min(DOMAIN m)
       IN <<m[k]>> \o ObjectValues([i \in DOMAIN m \ {k} |-> m[i]])

RECURSIVE Flatten(_)
Flatten(lists) ==
  IF lists = <<>> THEN <<>> ELSE Head(lists) \o Flatten(Tail(lists))

\* The result of one fetch by filter: distinct issues, in ascending id order.
\* A raw issue of the remote tracker: its id, its state and its status label.
GithubIssue(id, state) ==
  [id |-> id, state |-> state, status |-> remoteStatus[id]]

FetchLists ==
  {ObjectValues([i \in S |-> GithubIssue(i, st[i])]) :
     S \in SUBSET Ids, st \in [Ids -> IssueStates]}

\* issuesByFilter of a user with one filter.
FetchResults == {<<l>> : l \in FetchLists}

----------------------------------------------------------------------------
(* IssueService: the issue factory and the local store *)

\* The value JavaScript calls undefined, where an Issue is expected.
NoIssue ==
  [id |-> 0, state |-> "undefined", phase |-> "undefined",
   status |-> "undefined"]

\* What a subscriber has received: nothing yet, a value (an issue or
\* undefined) or an error.
Nothing == [kind |-> "nothing", value |-> NoIssue]
Emitted(v) == [kind |-> "value", value |-> v]
Failed == [kind |-> "error", value |-> NoIssue]

\* A forkJoin of a comment call and updateIssue: the method and the two calls
\* ("none" | "pending" | "ok" | "failed" | "unsubscribed").
NoCompound == [kind |-> "none", id |-> 0, update |-> "none", comment |-> "none"]

\* An error of the remote tracker, as parseUpdateIssueResponseError reads it:
\* err.code, whether err has a message of its own, the message (a sequence
\* of tokens) and err.response.data.message.
NoError ==
  [code |-> 0, hasMessage |-> FALSE, message |-> <<>>, response |-> "none"]

\* What an Observable fails with: a message for the user (throwError) or an
\* exception thrown on the way.
NoFailure == [kind |-> "none", text |-> <<>>]

CreateIssueModel(githubIssue, phase) ==
  CASE phase = "phaseBugReporting" ->
         [id |-> githubIssue.id, state |-> githubIssue.state, phase |-> phase,
          status |-> githubIssue.status]
    [] phase = "phaseBugTrimming" ->
         [id |-> githubIssue.id, state |-> githubIssue.state, phase |-> phase,
          status |-> githubIssue.status]
    [] phase = "phaseTeamResponse" ->
         [id |-> githubIssue.id, state |-> githubIssue.state, phase |-> phase,
          status |-> githubIssue.status]
    [] phase = "phaseTesterResponse" ->
         [id |-> githubIssue.id, state |-> githubIssue.state, phase |-> phase,
          status |-> githubIssue.status]
    [] phase = "phaseModeration" ->
         [id |-> githubIssue.id, state |-> githubIssue.state, phase |-> phase,
          status |-> githubIssue.status]
    [] OTHER -> NoIssue

\* The store while a handler runs: the three store variables, whether the
\* handler has thrown, and the calls of issues$.next it has made.
CurrentStore ==
  [defined |-> issuesDefined, issues |-> issues, published |-> issuesSubject,
   threw |-> FALSE, nexts |-> 0]

\* updateLocalStore: issueToUpdate.id throws on undefined.
UpdateLocalStore(store, issueToUpdate) ==
  IF store.threw THEN store
  ELSE IF issueToUpdate = NoIssue THEN [store EXCEPT !.threw = TRUE]
  ELSE LET new == (issueToUpdate.id :> issueToUpdate) @@ store.issues
       IN [defined |-> TRUE, issues |-> new, published |-> ObjectValues(new),
           threw |-> FALSE, nexts |-> store.nexts + 1]

\* A deleteFromLocalStore that does not call issues$.next.
DeleteFromLocalStore_noNext(store, id) ==
  IF store.threw THEN store
  ELSE IF id \notin DOMAIN store.issues THEN [store EXCEPT !.threw = TRUE]
  ELSE [store EXCEPT !.issues = [i \in DOMAIN store.issues \ {id} |->
                                  store.issues[i]]]

\* deleteFromLocalStore, for an id (the issue passed is this.issues[id]).
DeleteFromLocalStore(store, id) ==
  IF store.threw THEN store
  ELSE IF id \notin DOMAIN store.issues THEN [store EXCEPT !.threw = TRUE]
  ELSE LET new == [i \in DOMAIN store.issues \ {id} |-> store.issues[i]]
       IN [store EXCEPT !.issues = new, !.published = ObjectValues(new),
                        !.nexts = @ + 1]

CreateAndSaveIssueModel(store, githubIssue, phase) ==
  UpdateLocalStore(store, CreateIssueModel(githubIssue, phase))

GetOutdatedIssueIds_noEmptyGuard(store, fetched) ==
  IF ~store.defined THEN {}
  ELSE {issueId \in DOMAIN store.issues : issueId \notin Range(fetched)}

GetOutdatedIssueIds_none(store, fetched) == {}

GetOutdatedIssueIds(store, fetched) ==
  IF ~store.defined \/ Len(fetched) = 0 THEN {}
  ELSE {issueId \in DOMAIN store.issues : issueId \notin Range(fetched)}

\* A forEach that deletes from a snapshot of the store taken before the loop:
\* only the last deletion survives.
DeleteIssuesFromLocalStore_staleSnapshot(store, ids) ==
  IF ids = {} THEN store
  ELSE DeleteFromLocalStore(store, CHOOSE k \in ids : \A j \in ids : j <= k)

RECURSIVE DeleteIssuesFromLocalStore(_, _)
DeleteIssuesFromLocalStore(store, ids) ==
  IF ids = {} THEN store
  ELSE LET k == Min(ids)
       IN DeleteIssuesFromLocalStore(DeleteFromLocalStore(store, k), ids \ {k})

\* The two nested loops of initializeData over the fetched issues.  acc is
\* [store, fetched]: the store so far and fetchedIssueIds so far.
RECURSIVE SaveFetched(_, _, _)
SaveFetched(acc, list, phase) ==
  IF list = <<>> \/ acc.store.threw THEN acc
  ELSE LET model == CreateIssueModel(Head(list), phase)
       IN IF model = NoIssue
          THEN [acc EXCEPT !.store.threw = TRUE]
          ELSE SaveFetched(
                 [store |-> CreateAndSaveIssueModel(acc.store, Head(list), phase),
                  fetched |-> Append(acc.fetched, model.id)],
                 Tail(list), phase)

InitializeDataMap_noSave(store, issuesByFilter, phase) ==
  LET list == Flatten(issuesByFilter)
      fetched == [i \in 1..Len(list) |-> list[i].id]
      outdated == GetOutdatedIssueIds(store, fetched)
  IN [store |-> DeleteIssuesFromLocalStore(store, outdated),
      fetched |-> fetched, outdated |-> outdated]

\* The map callback of initializeData.  The result is [store, fetched,
\* outdated]; store.threw says the callback threw (Object.values throws on an
\* undefined store).
InitializeDataMap(store, issuesByFilter, phase) ==
  LET saved == SaveFetched([store |-> store, fetched |-> <<>>],
                           Flatten(issuesByFilter), phase)
      outdated == IF saved.store.threw THEN {}
                  ELSE GetOutdatedIssueIds(saved.store, saved.fetched)
      deleted == DeleteIssuesFromLocalStore(saved.store, outdated)
      final == IF ~deleted.threw /\ ~deleted.defined
               THEN [deleted EXCEPT !.threw = TRUE]
               ELSE deleted
  IN [store |-> final, fetched |-> saved.fetched, outdated |-> outdated]

----------------------------------------------------------------------------
(* Initial state: the service after construction *)

Init ==
  /\ currentPhase \in SessionPhases
  /\ filterKind \in FilterKinds
  /\ issuesDefined = FALSE
  /\ issues = EmptyStore
  /\ issuesSubject = <<>>
  /\ isLoading = FALSE
  /\ isCreatingTeamResponse = FALSE
  /\ teamResponseCall = "none"
  /\ pollIssueSub = "none"
  /\ polledId = 0
  /\ pollInner = "idle"
  /\ pollLast = Nothing
  /\ issuesPendingDeletion = {}
  /\ closeCalls = [id \in Ids |-> 0]
  /\ overlapped = [id \in Ids |-> FALSE]
  /\ snackBar = 0
  /\ issuesPollSubscription = "undefined"
  /\ liveTimers = 0
  /\ firstTickDue = FALSE
  /\ innerActive = FALSE
  /\ cyclesInFlight = 0
  /\ finishedSinceStart = FALSE
  /\ stoppedInFlight = FALSE
  /\ lastOp = "init"
  /\ fetchedIssueIds = <<>>
  /\ outdatedIssueIds = {}
  /\ nextCalls = 0
  /\ lastFetched = <<>>
  /\ hasFetched = FALSE
  /\ repeated = FALSE
  /\ served = {}
  /\ handledErrors = 0
  /\ remoteOpen = Ids
  /\ remoteStatus = [id \in Ids |-> "Incomplete"]
  /\ reopenCalls = [id \in Ids |-> 0]
  /\ eliminatedIssues = {}
  /\ clearTimers = <<>>
  /\ lastEliminated = {}
  /\ bulkSnackBar = FALSE
  /\ updateCalls = {}
  /\ compoundCall = NoCompound
  /\ compoundLast = Nothing
  /\ remoteError = NoError
  /\ updateError = NoFailure
  /\ buildLast = Nothing

----------------------------------------------------------------------------
(* The bulk poller *)

StartPollIssues_alwaysLoading ==
  /\ IF issuesPollSubscription = "undefined"
     THEN /\ isLoading' = TRUE
          /\ issuesPollSubscription' = "open"
          /\ liveTimers' = liveTimers + 1
          /\ firstTickDue' = TRUE
          /\ finishedSinceStart' = FALSE
          /\ lastOp' = "start"
     ELSE /\ UNCHANGED <<isLoading, issuesPollSubscription, liveTimers,
                         firstTickDue, finishedSinceStart>>
          /\ lastOp' = "startNoop"
  /\ UNCHANGED <<envVars, storeVars, restVars, innerActive,
                 stoppedInFlight,
                 cyclesInFlight, cycleVars, recVars>>

StartPollIssues ==
  /\ IF issuesPollSubscription = "undefined"
     THEN /\ isLoading' = IF Len(issuesSubject) = 0 THEN TRUE ELSE isLoading
          /\ issuesPollSubscription' = "open"
          /\ liveTimers' = liveTimers + 1
          /\ firstTickDue' = TRUE
          /\ finishedSinceStart' = FALSE
          /\ lastOp' = "start"
     ELSE /\ UNCHANGED <<isLoading, issuesPollSubscription, liveTimers,
                         firstTickDue, finishedSinceStart>>
          /\ lastOp' = "startNoop"
  /\ UNCHANGED <<envVars, storeVars, restVars, innerActive,
                 stoppedInFlight,
                 cyclesInFlight, cycleVars, recVars>>

\* Subscription.unsubscribe() of the poll: the timer is cancelled and the
\* active inner observable is torn down, which runs its finalize callback.
StopPollIssues_noUnsubscribe ==
  /\ IF issuesPollSubscription # "undefined"
     THEN /\ issuesPollSubscription' = "undefined"
          /\ lastOp' = "stop"
     ELSE /\ UNCHANGED issuesPollSubscription
          /\ lastOp' = "stopNoop"
  /\ UNCHANGED <<envVars, storeVars, isLoading, restVars,
                 liveTimers, firstTickDue, innerActive, cyclesInFlight,
                 finishedSinceStart, stoppedInFlight, cycleVars,
                 recVars>>

StopPollIssues ==
  /\ IF issuesPollSubscription # "undefined"
     THEN /\ issuesPollSubscription' = "undefined"
          /\ liveTimers' = 0
          /\ firstTickDue' = FALSE
          /\ innerActive' = FALSE
          /\ cyclesInFlight' = 0
          /\ isLoading' = IF innerActive THEN FALSE ELSE isLoading
          /\ stoppedInFlight' = innerActive
          /\ lastOp' = "stop"
     ELSE /\ UNCHANGED <<issuesPollSubscription, liveTimers, firstTickDue,
                         innerActive, cyclesInFlight, isLoading,
                         stoppedInFlight>>
          /\ lastOp' = "stopNoop"
  /\ UNCHANGED <<envVars, storeVars, restVars,
                 finishedSinceStart, cycleVars, recVars>>

\* mergeMap in place of exhaustMap: every tick starts a cycle.
Tick_mergeMap ==
  /\ liveTimers > 0
  /\ cyclesInFlight < 2
  /\ filterKind = "Filter"
  /\ firstTickDue' = FALSE
  /\ innerActive' = TRUE
  /\ cyclesInFlight' = cyclesInFlight + 1
  /\ lastOp' = "tick"
  /\ UNCHANGED <<envVars, storeVars, isLoading, restVars,
                 issuesPollSubscription, liveTimers, finishedSinceStart,
                 stoppedInFlight,
                 cycleVars, recVars>>

\* One tick of timer(0, POLL_INTERVAL) through exhaustMap.
Tick ==
  /\ liveTimers > 0
  /\ firstTickDue' = FALSE
  /\ IF innerActive
     THEN \* the previous cycle has not completed: the tick is ignored
          /\ lastOp' = "tickDropped"
          /\ UNCHANGED <<innerActive, cyclesInFlight, isLoading,
                         finishedSinceStart, nextCalls>>
     ELSE IF filterKind = "NoAccess"
     THEN \* initializeData returns of([]): emitted and completed at once,
          \* with no call of the store
          /\ lastOp' = "tickNoAccess"
          /\ isLoading' = FALSE
          /\ finishedSinceStart' = TRUE
          /\ nextCalls' = 0
          /\ UNCHANGED <<innerActive, cyclesInFlight>>
     ELSE /\ lastOp' = "tick"
          /\ innerActive' = TRUE
          /\ cyclesInFlight' = cyclesInFlight + 1
          /\ UNCHANGED <<isLoading, finishedSinceStart, nextCalls>>
  /\ UNCHANGED <<envVars, storeVars, restVars,
                 issuesPollSubscription, liveTimers, stoppedInFlight,
                 fetchedIssueIds, outdatedIssueIds, recVars>>

\* The remote fetch of the cycle in flight succeeds with issuesByFilter: the
\* map callback of initializeData runs; if it throws, catchError absorbs it;
\* finalize clears the loading flag.  (lastFetched, hasFetched and repeated
\* are set by the specification that uses this action.)
BulkFetchSuccess(issuesByFilter) ==
  /\ cyclesInFlight > 0
  /\ \E r \in {InitializeDataMap(CurrentStore, issuesByFilter, currentPhase)} :
        /\ issuesDefined' = r.store.defined
        /\ issues' = r.store.issues
        /\ issuesSubject' = r.store.published
        /\ fetchedIssueIds' = r.fetched
        /\ outdatedIssueIds' = r.outdated
        /\ nextCalls' = r.store.nexts
        /\ lastOp' = IF r.store.threw THEN "bulkThrow" ELSE "bulkOk"
  /\ cyclesInFlight' = cyclesInFlight - 1
  /\ innerActive' = FALSE
  /\ isLoading' = FALSE
  /\ finishedSinceStart' = TRUE
  /\ UNCHANGED <<envVars, restVars, issuesPollSubscription,
                 liveTimers, firstTickDue, stoppedInFlight>>

\* Without catchError the error reaches the poll subscription and ends it.
BulkFetchError_uncaught ==
  /\ cyclesInFlight > 0
  /\ cyclesInFlight' = 0
  /\ innerActive' = FALSE
  /\ isLoading' = FALSE
  /\ finishedSinceStart' = TRUE
  /\ issuesPollSubscription' = "closed"
  /\ liveTimers' = 0
  /\ lastOp' = "bulkError"
  /\ UNCHANGED <<envVars, storeVars, restVars, firstTickDue,
                 stoppedInFlight,
                 cycleVars, recVars>>

\* The remote fetch of the cycle in flight fails: catchError(() => EMPTY),
\* then finalize.
BulkFetchError ==
  /\ cyclesInFlight > 0
  /\ cyclesInFlight' = cyclesInFlight - 1
  /\ innerActive' = FALSE
  /\ isLoading' = FALSE
  /\ finishedSinceStart' = TRUE
  /\ lastOp' = "bulkError"
  /\ UNCHANGED <<envVars, storeVars, restVars,
                 issuesPollSubscription, liveTimers, firstTickDue,
                 stoppedInFlight, cycleVars,
                 recVars>>

\* reset(resetSessionId)
Reset ==
  /\ issuesDefined' = FALSE
  /\ issues' = EmptyStore
  /\ issuesSubject' = <<>>
  /\ issuesPollSubscription' = "undefined"
  /\ liveTimers' = 0
  /\ firstTickDue' = FALSE
  /\ innerActive' = FALSE
  /\ cyclesInFlight' = 0
  /\ isLoading' = FALSE
  /\ stoppedInFlight' = innerActive
  /\ lastOp' = "reset"
  /\ UNCHANGED <<envVars, restVars, finishedSinceStart,
                 cycleVars, recVars>>

BulkFetch ==
  \E issuesByFilter \in FetchResults :
    BulkFetchSuccess(issuesByFilter) /\ UNCHANGED recVars

BulkFetchRecorded ==
  \E issuesByFilter \in FetchResults :
    /\ BulkFetchSuccess(issuesByFilter)
    /\ lastFetched' = issuesByFilter
    /\ hasFetched' = TRUE
    /\ repeated' = (hasFetched /\ lastFetched = issuesByFilter)
    /\ UNCHANGED served

----------------------------------------------------------------------------
(* The single-issue poll and createTeamResponse *)

\* this.issues[id] on a defined store: undefined when the id is not a key.
Cached(store, id) ==
  IF id \in DOMAIN store.issues THEN store.issues[id] ELSE NoIssue

\* pollIssue(issueId), subscribed by its caller.
PollIssue(issueId) ==
  /\ pollIssueSub = "none"
  /\ pollIssueSub' = "open"
  /\ polledId' = issueId
  /\ lastOp' = "pollIssue"
  /\ UNCHANGED <<envVars, mutationVars, storeVars, isLoading, teamResponseVars, pollInner,
                 pollLast, deleteVars, pollVars, cycleVars, recVars>>

\* A tick that fetches whether or not a team response is being created.
PollTick_noPause ==
  /\ pollIssueSub = "open"
  /\ IF pollInner # "idle"
     THEN lastOp' = "pollTickDropped" /\ UNCHANGED pollInner
     ELSE lastOp' = "pollTick" /\ pollInner' = "fetching"
  /\ UNCHANGED <<envVars, mutationVars, storeVars, isLoading, teamResponseVars,
                 pollIssueSub, polledId, pollLast, deleteVars, pollVars,
                 cycleVars, recVars>>

\* One tick of the timer of pollIssue through exhaustMap.
PollTick ==
  /\ pollIssueSub = "open"
  /\ IF pollInner # "idle"
     THEN lastOp' = "pollTickDropped" /\ UNCHANGED pollInner
     ELSE IF isCreatingTeamResponse
     THEN lastOp' = "pollTickPaused" /\ UNCHANGED pollInner
     ELSE lastOp' = "pollTick" /\ pollInner' = "fetching"
  /\ UNCHANGED <<envVars, mutationVars, storeVars, isLoading, teamResponseVars,
                 pollIssueSub, polledId, pollLast, deleteVars, pollVars,
                 cycleVars, recVars>>

\* catchError((err) => this.getIssue(issueId)) of pollIssue: the cached value
\* when the store is defined, otherwise getLatestIssue fetches again.
FallBackToGetIssue ==
  IF issuesDefined
  THEN /\ pollInner' = "idle"
       /\ pollLast' = Emitted(Cached(CurrentStore, polledId))
  ELSE /\ pollInner' = "fallback"
       /\ UNCHANGED pollLast

\* catchError((err) => of(this.issues[id])) of getLatestIssue: reading
\* this.issues[id] throws when the store is undefined, and the error reaches
\* the subscriber of pollIssue.
FallBackToCachedValue ==
  IF issuesDefined
  THEN /\ pollInner' = "idle"
       /\ pollLast' = Emitted(Cached(CurrentStore, polledId))
       /\ UNCHANGED pollIssueSub
  ELSE /\ pollInner' = "idle"
       /\ pollLast' = Failed
       /\ pollIssueSub' = "errored"

\* fetchIssueGraphql(issueId) of a tick succeeds.
PollFetchSuccess(state) ==
  /\ pollInner = "fetching"
  /\ \E saved \in {CreateAndSaveIssueModel(
                     CurrentStore, GithubIssue(polledId, state),
                     currentPhase)} :
       IF ~saved.threw
       THEN /\ issuesDefined' = saved.defined
            /\ issues' = saved.issues
            /\ issuesSubject' = saved.published
            /\ pollInner' = "idle"
            /\ pollLast' = Emitted(saved.issues[polledId])
            /\ lastOp' = "pollFetchOk"
       ELSE /\ FallBackToGetIssue
            /\ lastOp' = "pollFetchThrow"
            /\ UNCHANGED storeVars
  /\ UNCHANGED <<envVars, mutationVars, isLoading, teamResponseVars, pollIssueSub, polledId,
                 deleteVars, pollVars, cycleVars, recVars>>

\* fetchIssueGraphql(issueId) of a tick fails.
PollFetchError ==
  /\ pollInner = "fetching"
  /\ FallBackToGetIssue
  /\ lastOp' = "pollFetchError"
  /\ UNCHANGED <<envVars, mutationVars, storeVars, isLoading, teamResponseVars,
                 pollIssueSub, polledId, deleteVars, pollVars, cycleVars,
                 recVars>>

\* The fetch of getLatestIssue succeeds.
PollFallbackSuccess(state) ==
  /\ pollInner = "fallback"
  /\ \E saved \in {CreateAndSaveIssueModel(
                     CurrentStore, GithubIssue(polledId, state),
                     currentPhase)} :
       IF ~saved.threw
       THEN /\ issuesDefined' = saved.defined
            /\ issues' = saved.issues
            /\ issuesSubject' = saved.published
            /\ pollInner' = "idle"
            /\ pollLast' = Emitted(Cached(saved, polledId))
            /\ lastOp' = "pollFallbackOk"
            /\ UNCHANGED pollIssueSub
       ELSE /\ FallBackToCachedValue
            /\ lastOp' = "pollFallbackThrow"
            /\ UNCHANGED storeVars
  /\ UNCHANGED <<envVars, mutationVars, isLoading, teamResponseVars, polledId, deleteVars,
                 pollVars, cycleVars, recVars>>

\* The fetch of getLatestIssue fails.
PollFallbackError ==
  /\ pollInner = "fallback"
  /\ FallBackToCachedValue
  /\ lastOp' = "pollFallbackError"
  /\ UNCHANGED <<envVars, mutationVars, storeVars, isLoading, teamResponseVars, polledId,
                 deleteVars, pollVars, cycleVars, recVars>>

\* createTeamResponse(issue), subscribed by its caller.
CreateTeamResponse ==
  /\ teamResponseCall = "none"
  /\ isCreatingTeamResponse' = TRUE
  /\ teamResponseCall' = "updating"
  /\ lastOp' = "createTeamResponse"
  /\ UNCHANGED <<envVars, mutationVars, storeVars, isLoading, issuePollVars, deleteVars,
                 pollVars, cycleVars, recVars>>

\* updateGithubIssue of createTeamResponse succeeds: the comment is created.
TeamResponseUpdateSuccess ==
  /\ teamResponseCall = "updating"
  /\ teamResponseCall' = "commenting"
  /\ lastOp' = "teamUpdateOk"
  /\ UNCHANGED <<envVars, mutationVars, storeVars, isLoading, isCreatingTeamResponse,
                 issuePollVars, deleteVars, pollVars, cycleVars, recVars>>

\* updateGithubIssue of createTeamResponse fails: the error is rethrown.
TeamResponseUpdateError ==
  /\ teamResponseCall = "updating"
  /\ teamResponseCall' = "none"
  /\ lastOp' = "teamUpdateError"
  /\ UNCHANGED <<envVars, mutationVars, storeVars, isLoading, isCreatingTeamResponse,
                 issuePollVars, deleteVars, pollVars, cycleVars, recVars>>

\* createIssueComment of createTeamResponse succeeds.
TeamResponseCommentSuccess ==
  /\ teamResponseCall = "commenting"
  /\ isCreatingTeamResponse' = FALSE
  /\ teamResponseCall' = "none"
  /\ lastOp' = "teamCommentOk"
  /\ UNCHANGED <<envVars, mutationVars, storeVars, isLoading, issuePollVars, deleteVars,
                 pollVars, cycleVars, recVars>>

\* createIssueComment of createTeamResponse fails.
TeamResponseCommentError ==
  /\ teamResponseCall = "commenting"
  /\ teamResponseCall' = "none"
  /\ lastOp' = "teamCommentError"
  /\ UNCHANGED <<envVars, mutationVars, storeVars, isLoading, isCreatingTeamResponse,
                 issuePollVars, deleteVars, pollVars, cycleVars, recVars>>

----------------------------------------------------------------------------
(* IssueTablesComponent: deleting an issue *)

RECURSIVE SumOver(_, _)
SumOver(f, S) ==
  IF S = {} THEN 0
  ELSE LET x == Min(S) IN f[x] + SumOver(f, S \ {x})

CloseCallsInFlight == SumOver(closeCalls, Ids)

ReopenCallsInFlight == SumOver(reopenCalls, Ids)

\* deleteIssue(id, event): deleteOneIssue marks the id as pending and calls
\* issueService.deleteIssue(id); then the undo snack bar of the id is opened
\* (a snack bar that is open is dismissed by the next one).
DeleteIssue(id) ==
  /\ CloseCallsInFlight + ReopenCallsInFlight < MaxCalls
  /\ overlapped' = [overlapped EXCEPT ![id] = @ \/ id \in issuesPendingDeletion]
  /\ issuesPendingDeletion' = issuesPendingDeletion \cup {id}
  /\ closeCalls' = [closeCalls EXCEPT ![id] = @ + 1]
  /\ snackBar' = id
  /\ bulkSnackBar' = FALSE
  /\ lastOp' = "delete"
  /\ UNCHANGED <<envVars, updateIssueVars, handledErrors, remoteVars, undoVars,
                 eliminatedIssues, clearTimers, lastEliminated, storeVars, isLoading,
                 teamResponseVars, issuePollVars, pollVars, cycleVars, recVars>>

\* A finalize that empties issuesPendingDeletion.
FinalizeDelete_clearAll(id) ==
  /\ issuesPendingDeletion' = {}
  /\ closeCalls' = [closeCalls EXCEPT ![id] = @ - 1]
  /\ overlapped' = [overlapped EXCEPT ![id] = @ /\ closeCalls[id] > 1]

\* The finalize callback of deleteOneIssue: the id leaves
\* issuesPendingDeletion.
FinalizeDelete(id) ==
  /\ issuesPendingDeletion' = issuesPendingDeletion \ {id}
  /\ closeCalls' = [closeCalls EXCEPT ![id] = @ - 1]
  /\ overlapped' = [overlapped EXCEPT ![id] = @ /\ closeCalls[id] > 1]

\* The error callback of a subscription of the component:
\* errorHandlingService.handleError(error).
HandleError ==
  /\ handledErrors < MaxErrors
  /\ handledErrors' = handledErrors + 1

\* A finalize that runs on success only.
CloseIssueError_noFinalize(id) ==
  /\ closeCalls[id] > 0
  /\ closeCalls' = [closeCalls EXCEPT ![id] = @ - 1]
  /\ overlapped' = [overlapped EXCEPT ![id] = @ /\ closeCalls[id] > 1]
  /\ HandleError
  /\ lastOp' = "closeError"
  /\ UNCHANGED <<envVars, updateIssueVars, remoteVars, undoVars, eliminateVars, storeVars,
                 isLoading, teamResponseVars, issuePollVars,
                 issuesPendingDeletion, snackBar, pollVars, cycleVars, recVars>>

\* An optimistic delete that is not rolled back: the entry is dropped although
\* the close call failed.
CloseIssueError_evict(id) ==
  /\ closeCalls[id] > 0
  /\ FinalizeDelete(id)
  /\ HandleError
  /\ \E dropped \in {DeleteFromLocalStore(CurrentStore, id)} :
       /\ issuesDefined' = dropped.defined
       /\ issues' = dropped.issues
       /\ issuesSubject' = dropped.published
  /\ lastOp' = "closeError"
  /\ UNCHANGED <<envVars, updateIssueVars, remoteVars, undoVars, eliminateVars, isLoading,
                 teamResponseVars, issuePollVars, snackBar, pollVars,
                 cycleVars, recVars>>

\* closeIssue(id) succeeds: the issue is closed at the remote, and
\* IssueService.deleteIssue saves the model of the closed issue in the store;
\* if that throws, the error callback runs.
CloseIssueSuccess(id) ==
  /\ closeCalls[id] > 0
  /\ remoteOpen' = remoteOpen \ {id}
  /\ UNCHANGED remoteStatus
  /\ \E saved \in {CreateAndSaveIssueModel(
                     CurrentStore, GithubIssue(id, "CLOSED"),
                     currentPhase)} :
       IF ~saved.threw
       THEN /\ issuesDefined' = saved.defined
            /\ issues' = saved.issues
            /\ issuesSubject' = saved.published
            /\ lastOp' = "closeOk"
            /\ UNCHANGED handledErrors
       ELSE /\ lastOp' = "closeThrow"
            /\ HandleError
            /\ UNCHANGED storeVars
  /\ FinalizeDelete(id)
  /\ UNCHANGED <<envVars, updateIssueVars, undoVars, eliminateVars, isLoading,
                 teamResponseVars, issuePollVars, snackBar, pollVars,
                 cycleVars, recVars>>

\* closeIssue(id) fails: the error callback runs.
CloseIssueError(id) ==
  /\ closeCalls[id] > 0
  /\ FinalizeDelete(id)
  /\ HandleError
  /\ lastOp' = "closeError"
  /\ UNCHANGED <<envVars, updateIssueVars, remoteVars, undoVars, eliminateVars, storeVars,
                 isLoading, teamResponseVars, issuePollVars, snackBar,
                 pollVars, cycleVars, recVars>>

\* The snack bar closes after snackBarAutoCloseTime.
SnackBarClose ==
  /\ snackBar # 0
  /\ snackBar' = 0
  /\ lastOp' = "snackBarClose"
  /\ UNCHANGED <<envVars, mutationVars, storeVars, isLoading, teamResponseVars,
                 issuePollVars, issuesPendingDeletion, closeCalls, overlapped,
                 pollVars, cycleVars, recVars>>

\* A fetch that returns every issue, open.
AllOpen == ObjectValues([i \in Ids |-> GithubIssue(i, "OPEN")])

\* The service with its data loaded: the poller has run one cycle that
\* fetched AllOpen and has been stopped (startPollIssues, a tick, the fetch,
\* stopPollIssues).
LoadedService ==
  /\ currentPhase \in SessionPhases
  /\ filterKind = "Filter"
  /\ remoteStatus = [id \in Ids |-> "Incomplete"]
  /\ \E r \in {InitializeDataMap(
                 [defined |-> FALSE, issues |-> EmptyStore,
                  published |-> <<>>, threw |-> FALSE, nexts |-> 0],
                 <<AllOpen>>, currentPhase)} :
       /\ issuesDefined = r.store.defined
       /\ issues = r.store.issues
       /\ issuesSubject = r.store.published
       /\ fetchedIssueIds = r.fetched
       /\ outdatedIssueIds = r.outdated
       /\ nextCalls = r.store.nexts
  /\ isLoading = FALSE
  /\ isCreatingTeamResponse = FALSE
  /\ teamResponseCall = "none"
  /\ pollIssueSub = "none"
  /\ polledId = 0
  /\ pollInner = "idle"
  /\ pollLast = Nothing
  /\ overlapped = [id \in Ids |-> FALSE]
  /\ issuesPollSubscription = "undefined"
  /\ liveTimers = 0
  /\ firstTickDue = FALSE
  /\ innerActive = FALSE
  /\ cyclesInFlight = 0
  /\ finishedSinceStart = TRUE
  /\ stoppedInFlight = FALSE
  /\ lastFetched = <<>>
  /\ hasFetched = FALSE
  /\ repeated = FALSE
  /\ served = {}
  /\ handledErrors = 0
  /\ remoteOpen = Ids
  /\ eliminatedIssues = {}
  /\ clearTimers = <<>>
  /\ lastEliminated = {}
  /\ bulkSnackBar = FALSE
  /\ updateCalls = {}
  /\ compoundCall = NoCompound
  /\ compoundLast = Nothing
  /\ remoteError = NoError
  /\ updateError = NoFailure
  /\ buildLast = Nothing

\* The component at work on the loaded service, with no call in flight.
InitLoaded ==
  /\ LoadedService
  /\ issuesPendingDeletion = {}
  /\ closeCalls = [id \in Ids |-> 0]
  /\ snackBar = 0
  /\ reopenCalls = [id \in Ids |-> 0]
  /\ lastOp = "stop"

\* The component right after deleteIssue(id, event) and the undo of its snack
\* bar: the close call and the reopen call of the id are both in flight, the
\* close call issued first.
InitRace ==
  /\ LoadedService
  /\ \E id \in Ids :
       /\ issuesPendingDeletion = {id}
       /\ closeCalls = [i \in Ids |-> IF i = id THEN 1 ELSE 0]
       /\ reopenCalls = [i \in Ids |-> IF i = id THEN 1 ELSE 0]
  /\ snackBar = 0
  /\ lastOp = "undo"

\* undeleteOneIssue(id, event): issueService.undeleteIssue(id) is subscribed.
UndeleteOneIssue(id) == reopenCalls' = [reopenCalls EXCEPT ![id] = @ + 1]

\* The action of the undo snack bar of a delete: undeleteIssue(id, event),
\* which ends by opening the snack bar "Restored issue".
UndoAction(id) ==
  /\ snackBar = id
  /\ CloseCallsInFlight + ReopenCallsInFlight < MaxCalls
  /\ UndeleteOneIssue(id)
  /\ snackBar' = 0
  /\ lastOp' = "undo"
  /\ UNCHANGED <<envVars, updateIssueVars, handledErrors, remoteVars, eliminateVars, storeVars,
                 isLoading, teamResponseVars, issuePollVars,
                 issuesPendingDeletion, closeCalls, overlapped, pollVars,
                 cycleVars, recVars>>

\* An undo that does not write the store.
ReopenIssueSuccess_noSave(id) ==
  /\ reopenCalls[id] > 0
  /\ reopenCalls' = [reopenCalls EXCEPT ![id] = @ - 1]
  /\ remoteOpen' = remoteOpen \cup {id}
  /\ UNCHANGED remoteStatus
  /\ lastOp' = "reopenOk"
  /\ UNCHANGED <<envVars, updateIssueVars, handledErrors, eliminateVars, storeVars, isLoading,
                 teamResponseVars, issuePollVars, deleteVars, pollVars,
                 cycleVars, recVars>>

\* reopenIssue(id) succeeds: the issue is open at the remote, and
\* IssueService.undeleteIssue saves the model of the reopened issue in the
\* store; if that throws, the error callback runs.
ReopenIssueSuccess(id) ==
  /\ reopenCalls[id] > 0
  /\ reopenCalls' = [reopenCalls EXCEPT ![id] = @ - 1]
  /\ remoteOpen' = remoteOpen \cup {id}
  /\ UNCHANGED remoteStatus
  /\ \E saved \in {CreateAndSaveIssueModel(
                     CurrentStore, GithubIssue(id, "OPEN"),
                     currentPhase)} :
       IF ~saved.threw
       THEN /\ issuesDefined' = saved.defined
            /\ issues' = saved.issues
            /\ issuesSubject' = saved.published
            /\ lastOp' = "reopenOk"
            /\ UNCHANGED handledErrors
       ELSE /\ lastOp' = "reopenThrow"
            /\ HandleError
            /\ UNCHANGED storeVars
  /\ UNCHANGED <<envVars, updateIssueVars, eliminateVars, isLoading, teamResponseVars,
                 issuePollVars, deleteVars, pollVars, cycleVars, recVars>>

\* reopenIssue(id) fails: the error callback runs.
ReopenIssueError(id) ==
  /\ reopenCalls[id] > 0
  /\ reopenCalls' = [reopenCalls EXCEPT ![id] = @ - 1]
  /\ HandleError
  /\ lastOp' = "reopenError"
  /\ UNCHANGED <<envVars, updateIssueVars, remoteVars, eliminateVars, storeVars, isLoading,
                 teamResponseVars, issuePollVars, deleteVars, pollVars,
                 cycleVars, recVars>>

\* An issue is put in issueService.eliminatedIssues.  The set is filled
\* outside the sources at hand: any issue of the store can be added.
EliminateIssue(id) ==
  /\ id \in DOMAIN issues
  /\ id \notin eliminatedIssues
  /\ eliminatedIssues' = eliminatedIssues \cup {id}
  /\ lastOp' = "eliminate"
  /\ UNCHANGED <<envVars, updateIssueVars, handledErrors, remoteVars, undoVars, clearTimers,
                 lastEliminated, bulkSnackBar, storeVars, isLoading, teamResponseVars,
                 issuePollVars, deleteVars, pollVars, cycleVars, recVars>>

\* deleteEliminatedIssues(event): deleteOneIssue for every issue of the set,
\* then the undo snack bar, then setTimeout.
DeleteEliminatedIssues ==
  /\ Len(clearTimers) < MaxTimers
  /\ CloseCallsInFlight + Cardinality(eliminatedIssues) <= MaxCalls
  /\ overlapped' = [id \in Ids |->
                      overlapped[id] \/ (id \in eliminatedIssues
                                         /\ id \in issuesPendingDeletion)]
  /\ issuesPendingDeletion' = issuesPendingDeletion \cup eliminatedIssues
  /\ closeCalls' = [id \in Ids |->
                      closeCalls[id] + IF id \in eliminatedIssues THEN 1 ELSE 0]
  /\ snackBar' = 0
  /\ bulkSnackBar' = TRUE
  /\ clearTimers' = Append(clearTimers, FALSE)
  /\ lastEliminated' = eliminatedIssues
  /\ lastOp' = "deleteEliminated"
  /\ UNCHANGED <<envVars, updateIssueVars, handledErrors, remoteVars, undoVars,
                 eliminatedIssues, storeVars, isLoading, teamResponseVars,
                 issuePollVars, pollVars, cycleVars, recVars>>

\* The action of the undo snack bar of deleteEliminatedIssues:
\* undeleteEliminatedIssues(event), which ends by opening the snack bar
\* "Restored eliminated issues".  The snack bar that is open is the one of the
\* newest callback pending.
UndeleteEliminatedIssues ==
  /\ bulkSnackBar
  /\ ReopenCallsInFlight + Cardinality(eliminatedIssues) <= MaxCalls
  /\ reopenCalls' = [id \in Ids |->
                       reopenCalls[id] + IF id \in eliminatedIssues THEN 1 ELSE 0]
  /\ bulkSnackBar' = FALSE
  /\ clearTimers' = [clearTimers EXCEPT ![Len(clearTimers)] = TRUE]
  /\ UNCHANGED lastEliminated
  /\ lastOp' = "undoEliminated"
  /\ UNCHANGED <<envVars, updateIssueVars, handledErrors, remoteVars, eliminatedIssues,
                 storeVars, isLoading, teamResponseVars, issuePollVars,
                 deleteVars, pollVars, cycleVars, recVars>>

\* A callback that leaves the set as it is.
ClearEliminatedIssues_keep ==
  /\ clearTimers # <<>>
  /\ clearTimers' = Tail(clearTimers)
  /\ bulkSnackBar' = (bulkSnackBar /\ Len(clearTimers) > 1)
  /\ lastOp' = "clearEliminated"
  /\ UNCHANGED <<envVars, updateIssueVars, handledErrors, remoteVars, undoVars,
                 eliminatedIssues, lastEliminated, storeVars, isLoading,
                 teamResponseVars, issuePollVars, deleteVars, pollVars,
                 cycleVars, recVars>>

\* The callback of setTimeout, snackBarAutoCloseTime after its
\* deleteEliminatedIssues: the set is cleared.  The snack bar of the same call
\* has the same duration: it closes with the newest callback.
ClearEliminatedIssues ==
  /\ clearTimers # <<>>
  /\ eliminatedIssues' = {}
  /\ clearTimers' = Tail(clearTimers)
  /\ bulkSnackBar' = (bulkSnackBar /\ Len(clearTimers) > 1)
  /\ UNCHANGED lastEliminated
  /\ lastOp' = "clearEliminated"
  /\ UNCHANGED <<envVars, updateIssueVars, handledErrors, remoteVars, undoVars, storeVars,
                 isLoading, teamResponseVars, issuePollVars, deleteVars,
                 pollVars, cycleVars, recVars>>

\* A status change that writes the new status in the issue of the store
\* instead of in a clone.
MarkAs_inPlace(id, status) ==
  /\ issuesDefined
  /\ id \in DOMAIN issues
  /\ Cardinality(updateCalls) < MaxCalls
  /\ [id |-> id, status |-> status] \notin updateCalls
  /\ updateCalls' = updateCalls \cup {[id |-> id, status |-> status]}
  /\ issues' = [issues EXCEPT ![id].status = status]
  /\ UNCHANGED <<issuesDefined, issuesSubject>>
  /\ UNCHANGED <<envVars, handledErrors, remoteVars, undoVars, eliminateVars,
                 compoundVars, shapeVars, buildVars, isLoading, teamResponseVars,
                 issuePollVars, deleteVars, pollVars, cycleVars, recVars>>

\* markAsResponded and markAsPending, for the issue of a row of the table: a
\* clone of the issue gets the new status and updateIssue(clone) is
\* subscribed.  A call in flight is the id and the status it sends.
MarkAs(id, status) ==
  /\ issuesDefined
  /\ id \in DOMAIN issues
  /\ Cardinality(updateCalls) < MaxCalls
  /\ [id |-> id, status |-> status] \notin updateCalls
  /\ updateCalls' = updateCalls \cup {[id |-> id, status |-> status]}
  /\ UNCHANGED <<envVars, handledErrors, remoteVars, undoVars, eliminateVars,
                 compoundVars, shapeVars, buildVars, storeVars, isLoading,
                 teamResponseVars, issuePollVars, deleteVars, pollVars,
                 cycleVars, recVars>>

MarkAsResponded(id) == MarkAs(id, "Done") /\ lastOp' = "markAsResponded"

MarkAsPending(id) == MarkAs(id, "Incomplete") /\ lastOp' = "markAsPending"

\* githubService.updateIssue succeeds: the remote holds the labels sent, and
\* updateIssue maps its response through createIssueModel; the next callback
\* of the table calls updateLocalStore (an exception it throws does not reach
\* the error callback).
UpdateIssueSuccess(call) ==
  /\ call \in updateCalls
  /\ updateCalls' = updateCalls \ {call}
  /\ remoteStatus' = [remoteStatus EXCEPT ![call.id] = call.status]
  /\ \E saved \in {UpdateLocalStore(
                     CurrentStore,
                     CreateIssueModel(
                       [id |-> call.id,
                        state |-> IF call.id \in remoteOpen
                                  THEN "OPEN" ELSE "CLOSED",
                        status |-> call.status],
                       currentPhase))} :
       IF ~saved.threw
       THEN /\ issuesDefined' = saved.defined
            /\ issues' = saved.issues
            /\ issuesSubject' = saved.published
            /\ lastOp' = "updateOk"
       ELSE /\ lastOp' = "updateThrow"
            /\ UNCHANGED storeVars
  /\ UNCHANGED <<envVars, handledErrors, remoteOpen, undoVars, eliminateVars,
                 compoundVars, shapeVars, buildVars, isLoading, teamResponseVars,
                 issuePollVars, deleteVars, pollVars, cycleVars, recVars>>

\* githubService.updateIssue fails: updateGithubIssue rethrows and the error
\* callback of the table runs.
UpdateIssueError(call) ==
  /\ call \in updateCalls
  /\ updateCalls' = updateCalls \ {call}
  /\ HandleError
  /\ lastOp' = "updateError"
  /\ UNCHANGED <<envVars, remoteVars, undoVars, eliminateVars, compoundVars,
                 shapeVars, buildVars, storeVars, isLoading, teamResponseVars,
                 issuePollVars, deleteVars, pollVars, cycleVars, recVars>>

\* The start of updateTesterResponse, updateTutorResponse or
\* createTutorResponse for issue id: forkJoin subscribes to the comment call
\* and to updateIssue.  updateTesterResponse first reads
\* this.issues[issue.id].testerResponses, which throws without that entry.
StartCompound(kind, id) ==
  /\ compoundCall.update # "pending"
  /\ compoundCall.comment # "pending"
  /\ IF kind = "updateTesterResponse"
        /\ (~issuesDefined \/ id \notin DOMAIN issues)
     THEN /\ compoundCall' = [kind |-> kind, id |-> id, update |-> "none",
                              comment |-> "none"]
          /\ compoundLast' = Failed
          /\ lastOp' = "compoundThrow"
     ELSE /\ compoundCall' = [kind |-> kind, id |-> id, update |-> "pending",
                              comment |-> "pending"]
          /\ compoundLast' = Nothing
          /\ lastOp' = kind
  /\ UNCHANGED <<envVars, handledErrors, remoteVars, undoVars, eliminateVars,
                 updateVars, shapeVars, buildVars, storeVars, isLoading,
                 teamResponseVars, issuePollVars, deleteVars, pollVars,
                 cycleVars, recVars>>

UpdateTesterResponse(id) == StartCompound("updateTesterResponse", id)

UpdateTutorResponse(id) == StartCompound("updateTutorResponse", id)

CreateTutorResponse(id) == StartCompound("createTutorResponse", id)

\* The map after forkJoin, once both calls have succeeded: the issue that
\* updateIssue built gets the comment (a method call, which throws on
\* undefined) and is emitted.
CompoundResult ==
  LET issue == CreateIssueModel(
                 GithubIssue(compoundCall.id,
                             IF compoundCall.id \in remoteOpen
                             THEN "OPEN" ELSE "CLOSED"),
                 currentPhase)
  IN IF issue = NoIssue THEN Failed ELSE Emitted(issue)

\* An updateIssue whose issue is emitted without waiting for the comment.
CompoundUpdateSuccess_merge ==
  /\ compoundCall.update = "pending"
  /\ compoundCall' = [compoundCall EXCEPT !.update = "ok"]
  /\ compoundLast' = CompoundResult
  /\ lastOp' = IF CompoundResult = Failed THEN "compoundThrow"
               ELSE "compoundOk"
  /\ UNCHANGED <<envVars, handledErrors, remoteVars, undoVars, eliminateVars,
                 updateVars, shapeVars, buildVars, storeVars, isLoading,
                 teamResponseVars, issuePollVars, deleteVars, pollVars,
                 cycleVars, recVars>>

\* updateIssue of the forkJoin succeeds.
CompoundUpdateSuccess ==
  /\ compoundCall.update = "pending"
  /\ compoundCall' = [compoundCall EXCEPT !.update = "ok"]
  /\ IF compoundCall.comment = "ok"
     THEN /\ compoundLast' = CompoundResult
          /\ lastOp' = IF CompoundResult = Failed THEN "compoundThrow"
                       ELSE "compoundOk"
     ELSE /\ UNCHANGED compoundLast
          /\ lastOp' = "compoundUpdateOk"
  /\ UNCHANGED <<envVars, handledErrors, remoteVars, undoVars, eliminateVars,
                 updateVars, shapeVars, buildVars, storeVars, isLoading,
                 teamResponseVars, issuePollVars, deleteVars, pollVars,
                 cycleVars, recVars>>

\* The comment call of the forkJoin succeeds.
CompoundCommentSuccess ==
  /\ compoundCall.comment = "pending"
  /\ compoundCall' = [compoundCall EXCEPT !.comment = "ok"]
  /\ IF compoundCall.update = "ok"
     THEN /\ compoundLast' = CompoundResult
          /\ lastOp' = IF CompoundResult = Failed THEN "compoundThrow"
                       ELSE "compoundOk"
     ELSE /\ UNCHANGED compoundLast
          /\ lastOp' = "compoundCommentOk"
  /\ UNCHANGED <<envVars, handledErrors, remoteVars, undoVars, eliminateVars,
                 updateVars, shapeVars, buildVars, storeVars, isLoading,
                 teamResponseVars, issuePollVars, deleteVars, pollVars,
                 cycleVars, recVars>>

\* updateIssue of the forkJoin fails: forkJoin fails and unsubscribes from
\* the comment call if it is still in flight.
CompoundUpdateError ==
  /\ compoundCall.update = "pending"
  /\ compoundCall' =
       [compoundCall EXCEPT !.update = "failed",
                            !.comment = IF @ = "pending"
                                        THEN "unsubscribed" ELSE @]
  /\ compoundLast' = Failed
  /\ lastOp' = "compoundError"
  /\ UNCHANGED <<envVars, handledErrors, remoteVars, undoVars, eliminateVars,
                 updateVars, shapeVars, buildVars, storeVars, isLoading,
                 teamResponseVars, issuePollVars, deleteVars, pollVars,
                 cycleVars, recVars>>

\* The comment call of the forkJoin fails.
CompoundCommentError ==
  /\ compoundCall.comment = "pending"
  /\ compoundCall' =
       [compoundCall EXCEPT !.comment = "failed",
                            !.update = IF @ = "pending"
                                       THEN "unsubscribed" ELSE @]
  /\ compoundLast' = Failed
  /\ lastOp' = "compoundError"
  /\ UNCHANGED <<envVars, handledErrors, remoteVars, undoVars, eliminateVars,
                 updateVars, shapeVars, buildVars, storeVars, isLoading,
                 teamResponseVars, issuePollVars, deleteVars, pollVars,
                 cycleVars, recVars>>

\* The error code of a validation failure.
ValidationFailedCode == 422

\* A JSON object with the keys field, code and value, each present or absent.
JsonObjects ==
  [field : {"assignees", "title", "absent"},
   code : {"invalid", "missing_field", "absent"},
   value : {"alice", "bob", "absent"}]

NoObject == [field |-> "absent", code |-> "absent", value |-> "absent"]

\* The tokens of a message: words and JSON objects.
Word(t) == [kind |-> "word", text |-> t, object |-> NoObject]
Json(o) == [kind |-> "json", text |-> "", object |-> o]

validationFailedPrefix == <<Word("Validation"), Word("Failed:")>>

\* Messages of the remote tracker: the prefix and one JSON object, the prefix
\* and text, the prefix and two objects, another text of the length of the
\* prefix before an object, a message without detail, the empty message.
Messages ==
  {validationFailedPrefix \o <<Json(o)>> : o \in JsonObjects}
    \cup {<<Word("Unprocessable"), Word("Entity:"), Json(o)>> :
            o \in JsonObjects}
    \cup {validationFailedPrefix \o <<Word("assignees")>>,
          validationFailedPrefix \o <<Json(NoObject), Json(NoObject)>>,
          <<Word("Not"), Word("Found")>>,
          <<>>}

RemoteErrors ==
  {e \in [code : {ValidationFailedCode, 404}, hasMessage : BOOLEAN,
          message : Messages,
          response : {"Validation Failed", "Not Found"}] :
     e.hasMessage \/ e.message = <<>>}

\* message.substring(start), in tokens.
Substring(message, start) == SubSeq(message, start + 1, Len(message))

\* JSON.parse: the text is one JSON object, or a SyntaxError is thrown.
JsonParse(text) ==
  IF Len(text) = 1 /\ text[1].kind = "json"
  THEN [threw |-> FALSE, value |-> text[1].object]
  ELSE [threw |-> TRUE, value |-> NoObject]

HasOwnProperty(object, key) == object[key] # "absent"

\* throwError(message).
ThrowError(text) == [kind |-> "message", text |-> text]

SyntaxError == [kind |-> "exception", text |-> <<"SyntaxError">>]

\* err.response.data.message.
ResponseMessage(err) == <<err.response>>

AssigneeMessage(value) ==
  <<"Assignee", value,
    "has not joined your organization yet. Please remove them from the assignees list.">>

ParseUpdateIssueResponseError(err) ==
  IF err.code # ValidationFailedCode \/ ~err.hasMessage
  THEN ThrowError(ResponseMessage(err))
  ELSE LET errorJson ==
             JsonParse(Substring(err.message, Len(validationFailedPrefix)))
           hasMandatoryFields ==
             \A field \in {"field", "code", "value"} :
               HasOwnProperty(errorJson.value, field)
       IN IF errorJson.threw THEN SyntaxError
          ELSE IF /\ hasMandatoryFields
                  /\ errorJson.value.field = "assignees"
                  /\ errorJson.value.code = "invalid"
          THEN ThrowError(AssigneeMessage(errorJson.value.value))
          ELSE ThrowError(ResponseMessage(err))

\* githubService.updateIssue fails with err: the catchError of
\* updateGithubIssue makes the update fail with what
\* parseUpdateIssueResponseError returns or throws.
UpdateGithubIssueError(err) ==
  /\ remoteError' = err
  /\ updateError' = ParseUpdateIssueResponseError(err)
  /\ lastOp' = "updateGithubIssueError"
  /\ UNCHANGED <<envVars, handledErrors, remoteVars, undoVars, eliminateVars,
                 updateVars, compoundVars, buildVars, storeVars, isLoading,
                 teamResponseVars, issuePollVars, deleteVars, pollVars,
                 cycleVars, recVars>>

\* createIssue(title, description, severity, type), subscribed by its
\* caller, when githubService.createIssue succeeds with a new issue of this
\* id: the response is mapped through createIssueModel and emitted.
CreateIssue(id) ==
  /\ buildLast' = Emitted(CreateIssueModel(GithubIssue(id, "OPEN"),
                                            currentPhase))
  /\ lastOp' = "createIssue"
  /\ UNCHANGED <<envVars, handledErrors, remoteVars, undoVars, eliminateVars,
                 updateVars, compoundVars, shapeVars, storeVars, isLoading,
                 teamResponseVars, issuePollVars, deleteVars, pollVars,
                 cycleVars, recVars>>

\* githubService.createIssue fails: the error reaches the subscriber.
CreateIssueError ==
  /\ buildLast' = Failed
  /\ lastOp' = "createIssueError"
  /\ UNCHANGED <<envVars, handledErrors, remoteVars, undoVars, eliminateVars,
                 updateVars, compoundVars, shapeVars, storeVars, isLoading,
                 teamResponseVars, issuePollVars, deleteVars, pollVars,
                 cycleVars, recVars>>

\* updateIssue(issue), subscribed by its caller, when updateGithubIssue
\* succeeds: the remote holds the status sent, and the response is mapped
\* through createIssueModel and emitted.
UpdateIssue(id, status) ==
  /\ remoteStatus' = [remoteStatus EXCEPT ![id] = status]
  /\ buildLast' = Emitted(CreateIssueModel(
                            [id |-> id,
                             state |-> IF id \in remoteOpen
                                       THEN "OPEN" ELSE "CLOSED",
                             status |-> status],
                            currentPhase))
  /\ lastOp' = "updateIssue"
  /\ UNCHANGED <<envVars, handledErrors, remoteOpen, undoVars, eliminateVars,
                 updateVars, compoundVars, shapeVars, storeVars, isLoading,
                 teamResponseVars, issuePollVars, deleteVars, pollVars,
                 cycleVars, recVars>>

\* currentUser.allocatedTeams, and the team whose labels an issue carries
\* (the issues are dealt to the teams in turn).
Teams == 1..MaxTeams

TeamOf(id) == ((id - 1) % MaxTeams) + 1

\* What fetchIssuesGraphqlByTeam can return for a team: open issues of the
\* team, possibly none.
TeamFetchLists(team) ==
  {ObjectValues([i \in S |-> GithubIssue(i, "OPEN")]) :
     S \in SUBSET {id \in Ids : TeamOf(id) = team}}

\* issuesByFilter of FILTER.FilterByTeamAssigned: one list per allocated
\* team, in the order of allocatedTeams.
TeamFetchResults ==
  {r \in [Teams -> UNION {TeamFetchLists(team) : team \in Teams}] :
     \A team \in Teams : r[team] \in TeamFetchLists(team)}

\* The forkJoin of the fetches by team emits: the cycle in flight reconciles
\* with one list per team.
BulkFetchByTeam ==
  \E issuesByFilter \in TeamFetchResults :
    /\ BulkFetchSuccess(issuesByFilter)
    /\ lastFetched' = issuesByFilter
    /\ hasFetched' = TRUE
    /\ repeated' = (hasFetched /\ lastFetched = issuesByFilter)
    /\ UNCHANGED served

\* What a bulk fetch returns when the issues of S are the open ones.
OpenList(S) == ObjectValues([i \in S |-> GithubIssue(i, "OPEN")])

\* The fetch of a cycle of the bulk poll returns the issues that are open at
\* the remote.
BulkFetchOpen ==
  /\ BulkFetchSuccess(<<OpenList(remoteOpen)>>)
  /\ UNCHANGED recVars

----------------------------------------------------------------------------
(* Specifications *)

\* The bulk poller and the store.
Next ==
  \/ StartPollIssues
  \/ StopPollIssues
  \/ Tick
  \/ BulkFetch
  \/ BulkFetchError
  \/ Reset

Spec == Init /\ [][Next]_vars

\* Consecutive reconciles, with the fetched lists recorded.
NextReconcile ==
  \/ StartPollIssues
  \/ Tick
  \/ BulkFetchRecorded
  \/ BulkFetchError

SpecReconcile == Init /\ [][NextReconcile]_vars

\* The single-issue poll, createTeamResponse and reset.
NextIssuePoll ==
  \/ \E issueId \in Ids : PollIssue(issueId)
  \/ PollTick
  \/ \E state \in IssueStates : PollFetchSuccess(state)
  \/ PollFetchError
  \/ \E state \in IssueStates : PollFallbackSuccess(state)
  \/ PollFallbackError
  \/ CreateTeamResponse
  \/ TeamResponseUpdateSuccess
  \/ TeamResponseUpdateError
  \/ TeamResponseCommentSuccess
  \/ TeamResponseCommentError
  \/ Reset

SpecIssuePoll == Init /\ [][NextIssuePoll]_vars

\* The delete flow of the issue table.
NextDelete ==
  \/ \E id \in Ids : DeleteIssue(id)
  \/ \E id \in Ids : CloseIssueSuccess(id)
  \/ \E id \in Ids : CloseIssueError(id)
  \/ SnackBarClose

SpecDelete == InitLoaded /\ [][NextDelete]_vars

\* The delete flow while the bulk poller runs; no undo is invoked.
NextDeleteSync ==
  \/ \E id \in Ids : DeleteIssue(id)
  \/ \E id \in Ids : CloseIssueSuccess(id)
  \/ \E id \in Ids : CloseIssueError(id)
  \/ SnackBarClose
  \/ StartPollIssues
  \/ Tick
  \/ BulkFetchOpen

SpecDeleteSync == InitLoaded /\ [][NextDeleteSync]_vars

\* Delete and undo of single issues.
NextUndo ==
  \/ \E id \in Ids : DeleteIssue(id)
  \/ \E id \in Ids : CloseIssueSuccess(id)
  \/ \E id \in Ids : CloseIssueError(id)
  \/ SnackBarClose
  \/ \E id \in Ids : UndoAction(id)
  \/ \E id \in Ids : ReopenIssueSuccess(id)
  \/ \E id \in Ids : ReopenIssueError(id)

SpecUndo == InitLoaded /\ [][NextUndo]_vars

\* The bulk eliminate and its undo, with remote calls that succeed.
NextEliminate ==
  \/ \E id \in Ids : EliminateIssue(id)
  \/ DeleteEliminatedIssues
  \/ UndeleteEliminatedIssues
  \/ ClearEliminatedIssues
  \/ \E id \in Ids : CloseIssueSuccess(id)
  \/ \E id \in Ids : ReopenIssueSuccess(id)

SpecEliminate == InitLoaded /\ [][NextEliminate]_vars

\* The bulk eliminate when no undo is invoked and the close calls succeed.
NextEliminateNoUndo ==
  \/ \E id \in Ids : EliminateIssue(id)
  \/ DeleteEliminatedIssues
  \/ ClearEliminatedIssues
  \/ \E id \in Ids : CloseIssueSuccess(id)

SpecEliminateNoUndo == InitLoaded /\ [][NextEliminateNoUndo]_vars

\* The bulk eliminate within its confirmation window: the close calls succeed
\* or fail before a callback of setTimeout runs, and no undo is invoked.
NextEliminateClose ==
  \/ \E id \in Ids : EliminateIssue(id)
  \/ DeleteEliminatedIssues
  \/ \E id \in Ids : CloseIssueSuccess(id)
  \/ \E id \in Ids : CloseIssueError(id)

SpecEliminateClose == InitLoaded /\ [][NextEliminateClose]_vars

\* The service before a session has set the phase: currentPhase is none of
\* the recognised phases.
InitUnknownPhase == Init /\ currentPhase \notin RecognisedPhases

\* Every path of the service that builds an issue from a response of the
\* remote: createIssue, updateIssue, the single-issue poll, deleteIssue and
\* undeleteIssue.
NextBuild ==
  \/ \E id \in Ids : CreateIssue(id)
  \/ CreateIssueError
  \/ \E id \in Ids, status \in Statuses : UpdateIssue(id, status)
  \/ \E issueId \in Ids : PollIssue(issueId)
  \/ PollTick
  \/ \E state \in IssueStates : PollFetchSuccess(state)
  \/ \E state \in IssueStates : PollFallbackSuccess(state)
  \/ \E id \in Ids : DeleteIssue(id)
  \/ \E id \in Ids : CloseIssueSuccess(id)
  \/ \E id \in Ids : UndoAction(id)
  \/ \E id \in Ids : ReopenIssueSuccess(id)

SpecBuild == InitUnknownPhase /\ [][NextBuild]_vars

\* The writers of the store at work together: the bulk poll (upsert and
\* evict), delete, undo and reset.  The user deletes and restores the issue
\* of one row, any number of times.
NextStore ==
  \/ StartPollIssues
  \/ Tick
  \/ BulkFetchOpen
  \/ \E id \in {Min(Ids)} : DeleteIssue(id)
  \/ \E id \in Ids : CloseIssueSuccess(id)
  \/ \E id \in Ids : UndoAction(id)
  \/ \E id \in Ids : ReopenIssueSuccess(id)
  \/ Reset

SpecStore == Init /\ [][NextStore]_vars

\* The bulk poll of a tutor or admin with several allocated teams.
NextTeams ==
  \/ StartPollIssues
  \/ Tick
  \/ BulkFetchByTeam
  \/ BulkFetchError

SpecTeams == Init /\ [][NextTeams]_vars

\* The tracker answers the bulk fetch in flight with the issues open at that
\* moment; the answer is delivered later.
RemoteServesFetch ==
  /\ cyclesInFlight > 0
  /\ served = {}
  /\ served' = {remoteOpen}
  /\ lastOp' = "served"
  /\ UNCHANGED <<envVars, storeVars, isLoading, restVars, pollVars, cycleVars,
                 lastFetched, hasFetched, repeated>>

\* The answer of the tracker reaches the map callback of initializeData.
BulkFetchServed ==
  \E open \in served :
    /\ BulkFetchSuccess(<<OpenList(open)>>)
    /\ served' = {}
    /\ UNCHANGED <<lastFetched, hasFetched, repeated>>

\* The step of BulkFetchServed, as seen on the answer in flight.
FetchDelivered ==
  /\ served # {}
  /\ cyclesInFlight > 0
  /\ served' = {}

\* The poller at work on the loaded service, a row of the table being
\* deleted and restored meanwhile; every call succeeds.
NextConverge ==
  \/ StartPollIssues
  \/ Tick
  \/ RemoteServesFetch
  \/ BulkFetchServed
  \/ \E id \in {Min(Ids)} : DeleteIssue(id)
  \/ \E id \in Ids : CloseIssueSuccess(id)
  \/ \E id \in Ids : UndoAction(id)
  \/ \E id \in Ids : ReopenIssueSuccess(id)

\* The timer of startPollIssues ticks every POLLING_INTERVAL for as long as
\* the subscription lives, and a fetch that succeeds is answered and
\* delivered.
FairConverge ==
  /\ WF_vars(Tick)
  /\ WF_vars(RemoteServesFetch)
  /\ WF_served(FetchDelivered)

SpecConverge == InitLoaded /\ [][NextConverge]_vars /\ FairConverge

\* The two responses of a delete and its undo arrive, in any order, while
\* the bulk poll runs.
NextRace ==
  \/ \E id \in Ids : CloseIssueSuccess(id)
  \/ \E id \in Ids : ReopenIssueSuccess(id)
  \/ StartPollIssues
  \/ Tick
  \/ BulkFetchOpen

SpecRace == InitRace /\ [][NextRace]_vars

\* The status changes of the table.
UpdateCalls == [id : Ids, status : Statuses]

NextUpdate ==
  \/ \E id \in Ids : MarkAsResponded(id)
  \/ \E id \in Ids : MarkAsPending(id)
  \/ \E call \in UpdateCalls : UpdateIssueSuccess(call)
  \/ \E call \in UpdateCalls : UpdateIssueError(call)

SpecUpdate == InitLoaded /\ [][NextUpdate]_vars

\* The mutations made of an update of the issue and a comment call.
NextCompound ==
  \/ \E id \in Ids : UpdateTesterResponse(id)
  \/ \E id \in Ids : UpdateTutorResponse(id)
  \/ \E id \in Ids : CreateTutorResponse(id)
  \/ CompoundUpdateSuccess
  \/ CompoundUpdateError
  \/ CompoundCommentSuccess
  \/ CompoundCommentError
  \/ CreateTeamResponse
  \/ TeamResponseUpdateSuccess
  \/ TeamResponseUpdateError
  \/ TeamResponseCommentSuccess
  \/ TeamResponseCommentError

SpecCompound == InitLoaded /\ [][NextCompound]_vars

\* The failures of updateGithubIssue.
NextShape == \E err \in RemoteErrors : UpdateGithubIssueError(err)

SpecShape == Init /\ [][NextShape]_vars

----------------------------------------------------------------------------
(* Properties of the reconcile step (SpecReconcile) *)

\* The last issue with this id in a fetched list.
LastWithId(list, id) ==
  list[CHOOSE i \in DOMAIN list :
         /\ list[i].id = id
         /\ \A j \in DOMAIN list : list[j].id = id => j <= i]

FetchedIds(list) == {list[i].id : i \in DOMAIN list}

\* C1: a bulk cycle whose fetched list is empty removes nothing: run on a
\* non-empty cache, it leaves the cache with the same ids and the same entries.
C1_EmptyFetchKeepsCache ==
  [][(/\ lastOp' \in {"bulkOk", "bulkThrow"}
      /\ cyclesInFlight' = cyclesInFlight - 1
      /\ Flatten(lastFetched') = <<>>
      /\ issuesDefined
      /\ DOMAIN issues # {})
     => (/\ lastOp' = "bulkOk"
         /\ issuesDefined'
         /\ issues' = issues
         /\ outdatedIssueIds' = {})]_vars

C1_Witness ==
  /\ lastOp = "bulkOk"
  /\ hasFetched
  /\ Flatten(lastFetched) = <<>>
  /\ DOMAIN issues # {}

\* C2: after a successful bulk cycle with a non-empty fetched list F the ids
\* of the cache are exactly the ids of F, each entry is the issue built from
\* the fetched issue of that id (full replacement), and every id cached before
\* and absent from F is gone.
C2_CacheEqualsFetched ==
  (lastOp = "bulkOk" /\ Flatten(lastFetched) # <<>>) =>
    LET F == Flatten(lastFetched)
    IN /\ issuesDefined
       /\ DOMAIN issues = FetchedIds(F)
       /\ \A id \in FetchedIds(F) :
            issues[id] = [id |-> id, state |-> LastWithId(F, id).state,
                          phase |-> currentPhase,
                          status |-> LastWithId(F, id).status]
       /\ outdatedIssueIds \cap DOMAIN issues = {}

C2_Witness ==
  /\ lastOp = "bulkOk"
  /\ Flatten(lastFetched) # <<>>
  /\ outdatedIssueIds # {}
  /\ DOMAIN issues = FetchedIds(Flatten(lastFetched))

\* C3: a reconcile with the fetched lists of the reconcile before it (no
\* other write to the cache in between) leaves the cache and the published
\* snapshot as the first one left them.
C3_ReconcileIdempotent ==
  [][(/\ lastOp' \in {"bulkOk", "bulkThrow"}
      /\ cyclesInFlight' = cyclesInFlight - 1
      /\ repeated')
     => UNCHANGED storeVars]_vars

C3_Witness ==
  /\ lastOp = "bulkOk"
  /\ repeated
  /\ Len(Flatten(lastFetched)) >= 2
  /\ DOMAIN issues # {}

----------------------------------------------------------------------------
(* Properties of the bulk poller (Spec) *)

TickRan == lastOp' \in {"tick", "tickDropped", "tickNoAccess"} /\ ~firstTickDue'

\* C4: at most one bulk cycle of the poller is in flight.  A tick that fires
\* while the previous cycle has not completed starts no cycle, and no cycle
\* starts later without a tick (the tick is dropped, not queued).
\* startPollIssues on a started poller creates no timer and leaves the
\* loading flag alone.
C4_AtMostOneCycle ==
  /\ [](cyclesInFlight <= 1 /\ liveTimers <= 1)
  /\ [][(TickRan /\ cyclesInFlight > 0) =>
          (lastOp' = "tickDropped" /\ cyclesInFlight' = cyclesInFlight)]_vars
  /\ [][cyclesInFlight' > cyclesInFlight =>
          (lastOp' = "tick" /\ cyclesInFlight = 0)]_vars
  /\ [][(lastOp' = "startNoop") =>
          (/\ issuesPollSubscription # "undefined"
           /\ UNCHANGED <<liveTimers, isLoading, pollVars, storeVars>>)]_vars

C4_Witness ==
  /\ lastOp = "tickDropped"
  /\ cyclesInFlight = 1
  /\ issuesPollSubscription = "open"

\* C5: once stopped, the poller has no timer and starts no cycle; the cycle
\* that was in flight at the stop is torn down (it writes nothing afterwards
\* and is not restarted); and the first tick after a later start finds no
\* cycle in flight, so it starts one, also when the stop interrupted a cycle.
C5_StopAndFreshStart ==
  /\ [](issuesPollSubscription = "undefined" =>
          (liveTimers = 0 /\ cyclesInFlight = 0 /\ ~innerActive))
  /\ [][cyclesInFlight' > cyclesInFlight =>
          issuesPollSubscription = "open"]_vars
  /\ [][(lastOp' \in {"bulkOk", "bulkThrow"} /\ storeVars' # storeVars) =>
          issuesPollSubscription = "open"]_vars
  /\ []((issuesPollSubscription = "open" /\ firstTickDue) =>
          (/\ liveTimers = 1
           /\ ~innerActive
           /\ cyclesInFlight = 0
           /\ ENABLED (Tick /\ lastOp' # "tickDropped")))

C5_Witness ==
  /\ lastOp = "start"
  /\ stoppedInFlight
  /\ firstTickDue
  /\ issuesPollSubscription = "open"

\* C6: a failed bulk cycle (the remote fetch fails, or the reconcile throws)
\* never ends the poll subscription: right after the failure the poller is
\* still started with its timer alive and no cycle in flight, and the next
\* tick starts a cycle.
C6_FailedCycleAbsorbed ==
  /\ [](issuesPollSubscription # "closed")
  /\ [](lastOp \in {"bulkError", "bulkThrow"} =>
          (/\ issuesPollSubscription = "open"
           /\ liveTimers = 1
           /\ ~innerActive
           /\ ENABLED (Tick /\ lastOp' = "tick")))
  /\ [][(lastOp \in {"bulkError", "bulkThrow"} /\ TickRan) =>
          (lastOp' = "tick" /\ cyclesInFlight' = 1)]_vars

C6_Witness ==
  /\ lastOp = "bulkError"
  /\ issuesPollSubscription = "open"
  /\ issuesDefined

\* C7: the loading flag turns true only in a startPollIssues that starts the
\* poller while the published snapshot is empty; it is false once a cycle has
\* finished after that start, by success or by failure; no tick sets it.
C7_LoadingFlag ==
  /\ [][(~isLoading /\ isLoading') =>
          (/\ lastOp' = "start"
           /\ issuesPollSubscription = "undefined"
           /\ Len(issuesSubject) = 0)]_vars
  /\ [](finishedSinceStart => ~isLoading)
  /\ [][(lastOp' \in {"bulkOk", "bulkThrow", "bulkError", "tickNoAccess"}
          /\ lastOp' # lastOp) => ~isLoading']_vars
  /\ [][TickRan => (isLoading' => isLoading)]_vars

C7_Witness ==
  /\ isLoading
  /\ cyclesInFlight = 1
  /\ lastOp = "tickDropped"

----------------------------------------------------------------------------
(* Properties of the single-issue poll (SpecIssuePoll) *)

PollTickRan == lastOp' \in {"pollTick", "pollTickPaused", "pollTickDropped"}

\* C8: while isCreatingTeamResponse is true, a tick of the single-issue poll
\* starts no fetch, emits nothing and leaves the store alone.
C8_PollPausedWhileCreating ==
  [][(PollTickRan /\ isCreatingTeamResponse) =>
       (/\ lastOp' # "pollTick"
        /\ pollInner' = pollInner
        /\ pollLast' = pollLast
        /\ UNCHANGED storeVars)]_vars

C8_Witness ==
  /\ lastOp = "pollTickPaused"
  /\ isCreatingTeamResponse
  /\ teamResponseCall = "commenting"
  /\ pollInner = "idle"

\* C9 (as claimed): when a remote fetch of the single-issue poll has failed,
\* the subscription is still open, and once no fetch is left in flight the
\* subscriber has received the cached value of the id, in every state of the
\* store.  The code breaks it on a store that was never populated.
C9_FetchErrorFallsBackToCache ==
  lastOp \in {"pollFetchError", "pollFallbackError"} =>
    (/\ pollIssueSub = "open"
     /\ pollLast.kind # "error"
     /\ pollInner = "idle" =>
          pollLast = Emitted(IF issuesDefined
                             THEN Cached(CurrentStore, polledId)
                             ELSE NoIssue))

----------------------------------------------------------------------------
(* Properties of the delete flow (SpecDelete) *)

\* C10: an id whose delete was started while it was not pending is in
\* issuesPendingDeletion for as long as its close call is in flight; when the
\* call settles, by success or by failure, the id leaves the set; with no
\* close call in flight the set is empty.
C10_PendingWhileCloseInFlight ==
  /\ \A id \in Ids :
       /\ (closeCalls[id] > 0 /\ ~overlapped[id]) => id \in issuesPendingDeletion
       /\ closeCalls[id] = 0 => id \notin issuesPendingDeletion
  /\ CloseCallsInFlight = 0 => issuesPendingDeletion = {}
  /\ issuesPendingDeletion \subseteq Ids

C10_Witness ==
  /\ lastOp = "closeError"
  /\ \E x, y \in Ids :
       /\ x # y
       /\ closeCalls[x] = 0 /\ x \notin issuesPendingDeletion
       /\ closeCalls[y] = 1 /\ y \in issuesPendingDeletion /\ ~overlapped[y]

----------------------------------------------------------------------------
(* Properties of the delete and undo flows (SpecDelete, SpecDeleteSync,    *)
(* SpecUndo)                                                               *)

\* C11: when the close call of a delete fails, the store is left as it was,
\* the failure is reported to the error handler exactly once, and the call is
\* not issued again: the calls in flight go down by one, that of the id.
C11_CloseFailureLeavesCache ==
  [][\A id \in Ids :
       (lastOp' = "closeError" /\ closeCalls'[id] # closeCalls[id]) =>
         /\ UNCHANGED storeVars
         /\ handledErrors' = handledErrors + 1
         /\ closeCalls'[id] = closeCalls[id] - 1
         /\ CloseCallsInFlight' = CloseCallsInFlight - 1]_vars

C11_Witness ==
  /\ lastOp = "closeError"
  /\ handledErrors = 1
  /\ issuesDefined
  /\ DOMAIN issues = Ids
  /\ CloseCallsInFlight = 0

\* C12: when the close call of a delete of id X succeeds, X is no key of the
\* store and no issue of the published snapshot in the state right after.
C12_CloseSuccessRemovesEntry ==
  [][\A id \in Ids :
       (lastOp' = "closeOk" /\ closeCalls'[id] # closeCalls[id]) =>
         /\ id \notin DOMAIN issues'
         /\ \A i \in DOMAIN issuesSubject' : issuesSubject'[i].id # id]_vars

\* An id whose delete is settled and confirmed: closed at the remote, no
\* close call in flight, its undo snack bar gone.
Deleted(id) ==
  /\ id \notin remoteOpen
  /\ closeCalls[id] = 0
  /\ snackBar # id

\* C13: an id that was deleted, and whose confirmation window has elapsed
\* without undo, is no key of the store once a bulk cycle has reconciled the
\* store with the open issues of the remote, also when that fetch is empty.
C13_DeletedAbsentAfterWindow ==
  lastOp = "bulkOk" =>
    \A id \in Ids : Deleted(id) => id \notin DOMAIN issues

\* C14: when the reopen call of an undo of id X succeeds and its issue is
\* built, the store has an entry X that is the model of the issue the reopen
\* call returned, and the snapshot holds it; when the undo fails (the call,
\* or the building of the issue), the error is reported once and the store is
\* left as it was.
C14_UndoRestoresEntry ==
  [][\A id \in Ids : reopenCalls'[id] # reopenCalls[id] =>
       /\ lastOp' = "reopenOk" =>
            /\ id \in DOMAIN issues'
            /\ issues'[id] =
                 CreateIssueModel(GithubIssue(id, "OPEN"), currentPhase)
            /\ issues'[id] \in Range(issuesSubject')
       /\ lastOp' \in {"reopenError", "reopenThrow"} =>
            /\ UNCHANGED storeVars
            /\ handledErrors' = handledErrors + 1]_vars

\* The undo of a delete that had been confirmed has succeeded.
C14_Witness ==
  /\ lastOp = "reopenOk"
  /\ CloseCallsInFlight = 0
  /\ ReopenCallsInFlight = 0
  /\ remoteOpen = Ids
  /\ remoteStatus = [id \in Ids |-> "Incomplete"]
  /\ \A id \in Ids : id \in DOMAIN issues /\ issues[id].state = "OPEN"
  /\ handledErrors = 0

----------------------------------------------------------------------------
(* Properties of the bulk eliminate (SpecEliminate) *)

\* C15: when the undo of a bulk eliminate is invoked while its snack bar is
\* open, a reopen call is issued for every id of the set that was eliminated,
\* and a reopen call that succeeds leaves an entry of its id in the store.
C15_BulkUndoReopensAll ==
  [][/\ (bulkSnackBar /\ lastOp' = "undoEliminated") =>
          \A id \in lastEliminated : reopenCalls'[id] = reopenCalls[id] + 1
     /\ \A id \in Ids :
          (lastOp' = "reopenOk" /\ reopenCalls'[id] # reopenCalls[id]) =>
            id \in DOMAIN issues']_vars

\* C16: while the snack bar of a bulk eliminate is open a callback is pending,
\* every bulk eliminate schedules one, and when the snack bar closes without
\* its undo the eliminated set is empty, by the callback alone: no call is
\* issued and the store is not written.
C16_WindowElapseClearsSet ==
  /\ [](bulkSnackBar => clearTimers # <<>>)
  /\ [][/\ lastOp' = "deleteEliminated" =>
             Len(clearTimers') = Len(clearTimers) + 1
        /\ (bulkSnackBar /\ ~bulkSnackBar' /\ lastOp' # "undoEliminated") =>
             /\ lastOp' = "clearEliminated"
             /\ eliminatedIssues' = {}
             /\ UNCHANGED <<closeCalls, reopenCalls, storeVars>>]_vars

\* A bulk eliminate of two issues has been confirmed and its window has
\* elapsed without undo.
C16_Witness ==
  /\ lastOp = "clearEliminated"
  /\ eliminatedIssues = {}
  /\ clearTimers = <<>>
  /\ ~bulkSnackBar
  /\ Cardinality(lastEliminated) = 2
  /\ remoteOpen = Ids \ lastEliminated
  /\ CloseCallsInFlight = 0
  /\ ReopenCallsInFlight = 0

\* C17: the callback of a bulk eliminate whose undo was invoked leaves the
\* eliminated set as it is.
C17_UndoKeepsSet ==
  [][(/\ clearTimers # <<>>
      /\ Head(clearTimers)
      /\ lastOp' = "clearEliminated") =>
       eliminatedIssues' = eliminatedIssues]_vars

----------------------------------------------------------------------------
(* Properties of the updates (SpecUpdate, SpecCompound, SpecShape) *)

\* C18: markAsResponded and markAsPending write nothing to the store when
\* they are called; when the update of issue X succeeds the entry of X is the
\* returned issue, with the new status, and no other entry changes; when it
\* fails the error is reported once and the store is left as it was.
C18_StatusChangeAllOrNothing ==
  [][/\ lastOp' \in {"markAsResponded", "markAsPending"} =>
          UNCHANGED storeVars
     /\ \A call \in updateCalls : updateCalls' = updateCalls \ {call} =>
          /\ lastOp' = "updateOk" =>
               /\ call.id \in DOMAIN issues'
               /\ issues'[call.id].id = call.id
               /\ issues'[call.id].status = call.status
               /\ issues'[call.id] \in Range(issuesSubject')
               /\ \A id \in DOMAIN issues \ {call.id} :
                    id \in DOMAIN issues' /\ issues'[id] = issues[id]
               /\ UNCHANGED handledErrors
          /\ lastOp' = "updateError" =>
               /\ UNCHANGED storeVars
               /\ handledErrors' = handledErrors + 1]_vars

\* An update has succeeded (issue 1 is Done in the store) and an update of
\* another issue has just failed, leaving it Incomplete.
C18_Witness ==
  /\ lastOp = "updateError"
  /\ handledErrors = 1
  /\ updateCalls = {}
  /\ issuesDefined
  /\ issues[1].status = "Done"
  /\ issues[2].status = "Incomplete"
  /\ remoteStatus[2] = "Incomplete"

\* C19: a mutation made of an update of the issue and a comment call emits an
\* issue only when both calls have succeeded; when either call has failed it
\* has ended in an error and has emitted nothing; createTeamResponse emits on
\* the success of its comment call, which it issues only after its update has
\* succeeded, and emits nothing on either failure; and no step of these
\* mutations writes the store.
C19_CompoundNeedsBothCalls ==
  /\ [](compoundLast.kind = "value" =>
          compoundCall.update = "ok" /\ compoundCall.comment = "ok")
  /\ []((compoundCall.update = "failed" \/ compoundCall.comment = "failed") =>
          compoundLast = Failed)
  /\ [][/\ lastOp' = "teamCommentOk" => teamResponseCall = "commenting"
        /\ (teamResponseCall # "commenting"
            /\ teamResponseCall' = "commenting") => lastOp' = "teamUpdateOk"
        /\ lastOp' \in {"teamUpdateError", "teamCommentError"} =>
             teamResponseCall' = "none"
        /\ (compoundCall' # compoundCall \/ compoundLast' # compoundLast
            \/ teamResponseCall' # teamResponseCall) =>
             UNCHANGED storeVars]_vars

\* A forkJoin mutation has emitted its issue.
C19_Witness ==
  /\ lastOp = "compoundOk"
  /\ compoundLast.kind = "value"
  /\ compoundLast.value.id = compoundCall.id
  /\ compoundCall.update = "ok"
  /\ compoundCall.comment = "ok"

\* The detail of a validation failure: the JSON object after the prefix.
InvalidAssignee(err) ==
  /\ err.code = ValidationFailedCode
  /\ err.hasMessage
  /\ Len(err.message) = 3
  /\ err.message[3].kind = "json"
  /\ err.message[3].object.field = "assignees"
  /\ err.message[3].object.code = "invalid"
  /\ err.message[3].object.value # "absent"

\* C20: an update rejected with code 422 and a detail of field "assignees"
\* and code "invalid" fails with the message that names the value of the
\* detail; an update rejected with any other error (another field or code, a
\* key missing, a detail that does not parse, another error code) fails with
\* the message of the remote.
C20_ValidationErrorShaping ==
  lastOp = "updateGithubIssueError" =>
    IF InvalidAssignee(remoteError)
    THEN updateError =
           ThrowError(AssigneeMessage(remoteError.message[3].object.value))
    ELSE updateError = ThrowError(ResponseMessage(remoteError))

----------------------------------------------------------------------------
(* Properties of the published snapshot (Spec, SpecStore, SpecTeams,       *)
(* SpecReconcile)                                                          *)

\* C21: every successful bulk cycle publishes a snapshot of the resulting
\* cache to the observers of issues$: the cycle calls issues$.next, and the
\* value published last is the list of the cached issues.  This covers the
\* cycles whose fetch returned an empty list and the cycles of a role with
\* no access.
C21_SnapshotPublishedEachCycle ==
  lastOp \in {"bulkOk", "tickNoAccess"} =>
    /\ nextCalls > 0
    /\ issuesSubject = ObjectValues(issues)


\* C26: in every state the current value of issues$ holds exactly the values
\* of the store: as many elements as there are cached ids, every element is
\* the entry cached under its id, and every cached id has its entry in it.
\* A store that is undefined has no entry and the value is the empty list.
C26_SnapshotMatchesCache ==
  /\ Len(issuesSubject) = Cardinality(DOMAIN issues)
  /\ \A i \in DOMAIN issuesSubject :
       /\ issuesSubject[i].id \in DOMAIN issues
       /\ issues[issuesSubject[i].id] = issuesSubject[i]
  /\ \A id \in DOMAIN issues :
       \E i \in DOMAIN issuesSubject : issuesSubject[i] = issues[id]
  /\ ~issuesDefined => (DOMAIN issues = {} /\ issuesSubject = <<>>)

\* A bulk cycle has evicted the entry of a deleted issue, and entries are
\* left.
C26_Witness ==
  /\ lastOp = "bulkOk"
  /\ outdatedIssueIds # {}
  /\ DOMAIN issues # {}
  /\ remoteOpen # Ids


\* C27: in a bulk cycle made of one fetch per allocated team, a team whose
\* fetch returned an empty list loses no cached issue, whatever the fetches
\* of the other teams returned.
C27_EmptyTeamFetchKeepsTeam ==
  [][(/\ lastOp' \in {"bulkOk", "bulkThrow"}
      /\ cyclesInFlight' = cyclesInFlight - 1)
     => \A team \in Teams :
          lastFetched'[team] = <<>> =>
            \A id \in DOMAIN issues :
              TeamOf(id) = team => id \in DOMAIN issues']_vars

\* C30: a bulk cycle whose fetch succeeds with no issue at all, on a store
\* that was never populated since the start of the service, completes with
\* an empty snapshot and not with an error.
C30_EmptyFirstFetchSucceeds ==
  [][(/\ lastOp' \in {"bulkOk", "bulkThrow"}
      /\ cyclesInFlight' = cyclesInFlight - 1
      /\ Flatten(lastFetched') = <<>>
      /\ ~issuesDefined)
     => (/\ lastOp' = "bulkOk"
         /\ issuesSubject' = <<>>)]_vars

----------------------------------------------------------------------------
(* Properties of createTeamResponse and the single-issue poll              *)
(* (SpecIssuePoll)                                                         *)

\* C22: once createTeamResponse has settled (both calls succeeded, or the
\* update of the issue failed, or the creation of the comment failed),
\* isCreatingTeamResponse is false, and a tick of the single-issue poll that
\* finds no fetch in flight fetches the issue.
C22_PauseEndsWithCreation ==
  /\ [](teamResponseCall = "none" => ~isCreatingTeamResponse)
  /\ [][(PollTickRan /\ teamResponseCall = "none" /\ pollInner = "idle")
          => (lastOp' = "pollTick" /\ pollInner' = "fetching")]_vars

\* The step is one in which the single-issue poll saves a fetched issue in
\* the store (createAndSaveIssueModel in pollIssue or in getLatestIssue).
PollWrote == lastOp' \in {"pollFetchOk", "pollFallbackOk"}

\* C23: while a team response is being created (from the call of
\* createTeamResponse to its settlement), the single-issue poll writes no
\* fetched issue to the store, not even the result of a fetch that was in
\* flight when the creation started.
C23_NoPollWriteWhileCreating ==
  [][teamResponseCall # "none" => ~PollWrote]_vars

----------------------------------------------------------------------------
(* Properties of the bulk eliminate with failing close calls               *)
(* (SpecEliminateClose)                                                    *)

\* The entry of the id in the store is the same before and after the step.
SameEntry(id) ==
  /\ (id \in DOMAIN issues') = (id \in DOMAIN issues)
  /\ id \in DOMAIN issues => issues'[id] = issues[id]

SameMarker(id) == (id \in issuesPendingDeletion') = (id \in issuesPendingDeletion)

\* C24: deleteEliminatedIssues gives every id of the set its own close call
\* and its own marker in issuesPendingDeletion, and touches no other id; when
\* the close call of one id settles, by success or by failure, the close
\* calls, the markers and the store entries of all other ids are as before.
C24_BulkDeletesIndependent ==
  [][/\ lastOp' = "deleteEliminated" =>
          \A id \in Ids :
            IF id \in eliminatedIssues
            THEN /\ closeCalls'[id] = closeCalls[id] + 1
                 /\ id \in issuesPendingDeletion'
            ELSE /\ closeCalls'[id] = closeCalls[id]
                 /\ SameMarker(id)
     /\ \A id \in Ids :
          closeCalls'[id] < closeCalls[id] =>
            /\ closeCalls'[id] = closeCalls[id] - 1
            /\ \A other \in Ids \ {id} :
                 /\ closeCalls'[other] = closeCalls[other]
                 /\ SameMarker(other)
                 /\ SameEntry(other)]_vars

\* Two ids were eliminated together; the close call of one has failed while
\* the close call of the other is still in flight.
C24_Witness ==
  /\ lastOp = "closeError"
  /\ Cardinality(lastEliminated) = 2
  /\ CloseCallsInFlight = 1
  /\ Cardinality(issuesPendingDeletion) = 1
  /\ issuesPendingDeletion \subseteq lastEliminated

----------------------------------------------------------------------------
(* Properties of a delete and its undo in flight together (SpecRace,       *)
(* SpecConverge)                                                           *)

\* The step settles the last call in flight for the id, successfully.
LastCallSettles(id) ==
  /\ closeCalls[id] + reopenCalls[id] = 1
  /\ closeCalls'[id] + reopenCalls'[id] = 0
  /\ lastOp' \in {"closeOk", "reopenOk"}

\* C28: the undo of an id was invoked while the close call of its delete was
\* in flight.  When the second of the two responses has arrived (both calls
\* succeeded), the entry of the id is the issue the reopen call returned, in
\* whichever order the responses arrived.
C28_LaterUndoWins ==
  [][\A id \in Ids :
       LastCallSettles(id) =>
         /\ id \in DOMAIN issues'
         /\ issues'[id] =
              CreateIssueModel(GithubIssue(id, "OPEN"), currentPhase)]_vars

\* The poller is started, no close or reopen call is in flight (so the set of
\* open issues at the tracker has stopped changing), and a bulk cycle
\* succeeds with a non-empty result.
Quiet ==
  /\ issuesPollSubscription = "open"
  /\ CloseCallsInFlight + ReopenCallsInFlight = 0
  /\ currentPhase \in RecognisedPhases
  /\ filterKind = "Filter"
  /\ remoteOpen # {}

\* The ids of the cache are the ids a fetch returns.
Converged == issuesDefined /\ DOMAIN issues = remoteOpen

\* C29: if from some point on the poller is started, every mutation has
\* settled and the fetches return a non-empty list, then from some point on
\* the ids of the cache are the ids the fetch returns, even when an answer
\* read by a fetch before a delete or an undo settled is delivered after it.
C29_CacheConverges == <>[]Quiet => <>[]Converged

\* The answer of a fetch read before a delete settled has been delivered after
\* it: the cache holds an id that is no longer open at the tracker.
C29_Witness ==
  /\ lastOp = "bulkOk"
  /\ Quiet
  /\ served = {}
  /\ DOMAIN issues # remoteOpen

----------------------------------------------------------------------------
(* Properties of the issue factory (SpecBuild) *)

\* C25: while the current phase is none of the five recognised phases, every
\* operation that builds an issue ends in an error: createIssue and
\* updateIssue fail for their subscriber, the single-issue poll emits no
\* value, no delete and no undo succeeds, and the store gets no entry.
C25_UnknownPhaseFailsBuild ==
  currentPhase \notin RecognisedPhases =>
    /\ lastOp \in {"createIssue", "updateIssue"} => buildLast.kind = "error"
    /\ buildLast.kind # "value"
    /\ pollLast.kind # "value"
    /\ lastOp \notin {"closeOk", "reopenOk", "pollFetchOk", "pollFallbackOk"}
    /\ DOMAIN issues = {}

====
